---- MODULE Spec2Model ----
(***************************************************************************)
(* Model of the network traffic modelling tool (src/src/main.rs).          *)
(*                                                                         *)
(* main.rs is the crate root: load_network, dijkstra, model_traffic and    *)
(* worst_case_failure are modelled from it.  network.rs holds a second     *)
(* copy of dijkstra (identical relaxation loop) that main.rs never         *)
(* declares as a module.                                                   *)
(*                                                                         *)
(* Node identifiers are opaque strings compared by equality.  Costs are    *)
(* usize; the model's weights keep every path sum far below usize::MAX, so *)
(* the addition `cost + link.weight` never overflows within the bounds.    *)
(***************************************************************************)
EXTENDS Integers, Sequences, FiniteSets, TLC

VARIABLES
    pc,                 \* position of the program
    records,            \* rows of the network file read by load_network
    network,            \* Network.links
    traffic_demands,    \* Vec<TrafficDemand>
    source,             \* dijkstra argument (single-query specification)
    destination,        \* dijkstra argument (single-query specification)
    result,             \* Option<Vec<usize>> returned by dijkstra
    d,                  \* zero-based index of the next demand of model_traffic
    link_utilization,   \* HashMap<usize, usize> of model_traffic
    warnings,           \* "No path found" lines printed by model_traffic
    paths,              \* what dijkstra returned for each demand processed so far
    utilization_report, \* rows written to utilization_report.csv
    l,                  \* zero-based index of the next link of worst_case_failure
    wcf_report,         \* rows written to wcf_report.csv
    run,                \* 1 for the first run of the tool, 2 for the second
    first_run           \* the output files of the first run

vars == <<pc, records, network, traffic_demands, source, destination, result,
          d, link_utilization, warnings, paths, utilization_report, l, wcf_report,
          run, first_run>>

----------------------------------------------------------------------------
(* Bounds of the model *)

MaxLinks == 3

MaxRouteLinks == 2

MaxDemands == 2

MaxWeight == 1

MaxVolume == 2

MaxRecords == 3

\* node names of the single-query specification
Nodes == {"A", "B", "C", "D"}

\* node names of the specifications of the whole run
RouteNodes == {"A", "B", "C"}

\* usize::MAX, the "infinity" of the distance table.  TLC integers are
\* 32 bits wide, so the model uses the largest value TLC represents.
UsizeMax == 2147483647

----------------------------------------------------------------------------
(* Generic helpers: maps as functions, sequences *)

EmptyMap == << >>

Insert(m, k, v) == [x \in (DOMAIN m) \cup {k} |-> IF x = k THEN v ELSE m[x]]

Reverse(s) == [i \in 1..Len(s) |-> s[Len(s) + 1 - i]]

RECURSIVE SeqsUpTo(_, _)
SeqsUpTo(S, n) ==
    IF n = 0 THEN {<< >>}
    ELSE LET shorter == SeqsUpTo(S, n - 1)
         IN  shorter \cup {Append(s, x) : s \in {t \in shorter : Len(t) = n - 1}, x \in S}

RECURSIVE SumSeq(_)
SumSeq(s) == IF s = << >> THEN 0 ELSE s[1] + SumSeq(Tail(s))

----------------------------------------------------------------------------
(* usize <-> text *)

Digits == <<"0", "1", "2", "3", "4", "5", "6", "7", "8", "9">>

\* usize::to_string: decimal digits, most significant first
RECURSIVE to_string(_)
to_string(n) ==
    IF n < 10 THEN Digits[n + 1]
    ELSE to_string(n \div 10) \o Digits[(n % 10) + 1]

\* the numbers whose text can occur in a model input
ParseRange == 0..20

\* str::parse::<usize>: Ok(n) for the decimal text of n, Err otherwise
Parse(s) ==
    IF \E n \in ParseRange : to_string(n) = s
    THEN [ok |-> TRUE, value |-> CHOOSE n \in ParseRange : to_string(n) = s]
    ELSE [ok |-> FALSE]

----------------------------------------------------------------------------
(* Data model *)

Link(link_id, start, end, capacity, weight) ==
    [link_id |-> link_id, start |-> start, end |-> end,
     capacity |-> capacity, weight |-> weight]

TrafficDemand(src, dst, demand) ==
    [source |-> src, destination |-> dst, demand |-> demand]

State(node, cost) == [node |-> node, cost |-> cost]

\* Ord for State: self.cmp(other) = other.cost.cmp(self.cost), so
\* a <= b exactly when b.cost <= a.cost (the heap is a min-heap on cost)
StateLe(a, b) == b.cost <= a.cost

----------------------------------------------------------------------------
(* std::collections::BinaryHeap as dijkstra uses it: a vector in heap      *)
(* order; positions are zero-based as in the library, data[p + 1] is the   *)
(* element at position p.                                                  *)

RECURSIVE SiftUp(_, _, _, _)
SiftUp(data, start, pos, elt) ==
    IF pos > start
    THEN LET parent == (pos - 1) \div 2
         IN  IF StateLe(elt, data[parent + 1])
             THEN [data EXCEPT ![pos + 1] = elt]
             ELSE SiftUp([data EXCEPT ![pos + 1] = data[parent + 1]], start, parent, elt)
    ELSE [data EXCEPT ![pos + 1] = elt]

HeapPush(data, item) == SiftUp(Append(data, item), 0, Len(data), item)

RECURSIVE SiftDownToBottom(_, _, _, _, _)
SiftDownToBottom(data, start, pos, child, elt) ==
    LET end == Len(data)
    IN  IF end >= 2 /\ child <= end - 2
        THEN LET c == IF StateLe(data[child + 1], data[child + 2]) THEN child + 1 ELSE child
             IN  SiftDownToBottom([data EXCEPT ![pos + 1] = data[c + 1]], start, c, 2 * c + 1, elt)
        ELSE IF child = end - 1
             THEN SiftUp([data EXCEPT ![pos + 1] = data[child + 1]], start, child, elt)
             ELSE SiftUp(data, start, pos, elt)

\* pop on a non-empty heap: <<the greatest element, the remaining heap>>
HeapPop(data) ==
    LET item == data[Len(data)]
        rest == SubSeq(data, 1, Len(data) - 1)
    IN  IF rest = << >>
        THEN [item |-> item, heap |-> rest]
        ELSE [item |-> rest[1],
              heap |-> SiftDownToBottom([rest EXCEPT ![1] = item], 0, 0, 1, item)]

----------------------------------------------------------------------------
(* dijkstra *)

Some(path) == [tag |-> "Some", path |-> path]

None == [tag |-> "None"]

Panic == [tag |-> "panic"]

\* lines 101-105: every link endpoint at usize::MAX, then the source at 0
InitDistances(links, src) ==
    LET ends == {links[i].start : i \in 1..Len(links)} \cup {links[i].end : i \in 1..Len(links)}
    IN  Insert([n \in ends |-> UsizeMax], src, 0)

\* lines 112-121: walk the predecessor links back from the destination
RECURSIVE WalkBack(_, _, _, _)
WalkBack(links, visited, current_node, path) ==
    IF current_node \in DOMAIN visited
    THEN LET link_id == visited[current_node]
         IN  WalkBack(links, visited, links[link_id + 1].start, Append(path, link_id))
    ELSE path

\* the predecessor walk without the final reversal
ReconstructUnreversed(links, visited, dst) == WalkBack(links, visited, dst, << >>)

Reconstruct(links, visited, dst) == Reverse(WalkBack(links, visited, dst, << >>))

\* the links enumerated from the last to the first
EnumerateBackwards(links) ==
    [i \in 1..Len(links) |-> <<Len(links) - i, links[Len(links) + 1 - i]>>]

\* line 129: network.links.iter().enumerate()
Enumerate(links) == [i \in 1..Len(links) |-> <<i - 1, links[i]>>]

\* a node's distance is set on discovery and never lowered
ImprovesOnDiscovery(next_cost, known) == known = UsizeMax

\* line 134: the relaxation test
Improves(next_cost, known) == next_cost < known

\* lines 129-140: relax the links leaving `node`, in enumeration order
RECURSIVE Relax(_, _, _, _, _)
Relax(pairs, i, node, cost, st) ==
    IF i > Len(pairs) THEN st
    ELSE LET link_id == pairs[i][1]
             link == pairs[i][2]
         IN  IF link.start = node
             THEN LET next_node == link.end
                      next_cost == cost + link.weight
                  IN  IF next_node \notin DOMAIN st.distances
                      THEN [st EXCEPT !.panicked = TRUE]
                      ELSE IF Improves(next_cost, st.distances[next_node])
                           THEN Relax(pairs, i + 1, node, cost,
                                      [st EXCEPT
                                         !.distances = Insert(@, next_node, next_cost),
                                         !.visited = Insert(@, next_node, link_id),
                                         !.heap = HeapPush(@, State(next_node, next_cost))])
                           ELSE Relax(pairs, i + 1, node, cost, st)
             ELSE Relax(pairs, i + 1, node, cost, st)

\* an empty path in place of None
NoPathFoundAsEmptyPath == Some(<< >>)

\* line 143: the queue emptied without reaching the destination
NoPathFound == None

\* lines 109-143: the main loop
RECURSIVE Loop(_, _, _)
Loop(links, dst, st) ==
    IF st.panicked THEN Panic
    ELSE IF st.heap = << >> THEN NoPathFound
    ELSE LET popped == HeapPop(st.heap)
             node == popped.item.node
             cost == popped.item.cost
             st1 == [st EXCEPT !.heap = popped.heap]
         IN  IF node = dst
             THEN Some(Reconstruct(links, st.visited, dst))
             ELSE IF node \notin DOMAIN st.distances THEN Panic
             ELSE IF cost > st.distances[node]
             THEN Loop(links, dst, st1)
             ELSE Loop(links, dst, Relax(Enumerate(links), 1, node, cost, st1))

dijkstra(links, src, dst) ==
    Loop(links, dst,
         [heap |-> HeapPush(<< >>, State(src, 0)),
          visited |-> EmptyMap,
          distances |-> InitDistances(links, src),
          panicked |-> FALSE])

----------------------------------------------------------------------------
(* Inputs *)

Weights == 0..MaxWeight

Volumes == 0..MaxVolume

\* capacities of the model inputs (read, never consulted by the algorithms)
Capacities == {10}

LinkChoices(nodes) ==
    {<<s, e, c, w>> : s \in nodes, e \in nodes, c \in Capacities, w \in Weights}

\* a network as load_network builds it: link_id is the position
MakeNetwork(choice) ==
    [i \in 1..Len(choice) |-> Link(i - 1, choice[i][1], choice[i][2], choice[i][3], choice[i][4])]

Networks(nodes, n) == {MakeNetwork(c) : c \in SeqsUpTo(LinkChoices(nodes), n)}

DemandChoices == {TrafficDemand(s, e, v) : s \in RouteNodes, e \in RouteNodes, v \in Volumes}

DemandLists(n) == SeqsUpTo(DemandChoices, n)

NoOutput == [paths |-> << >>, utilization |-> << >>, wcf |-> << >>]

----------------------------------------------------------------------------
(* Specification of a single dijkstra query *)

InitPath ==
    /\ pc = "query"
    /\ records = << >>
    /\ network \in Networks(Nodes, MaxLinks)
    /\ traffic_demands = << >>
    /\ source \in Nodes
    /\ destination \in Nodes
    /\ result = None
    /\ d = 0
    /\ link_utilization = EmptyMap
    /\ warnings = << >>
    /\ paths = << >>
    /\ utilization_report = << >>
    /\ l = 0
    /\ wcf_report = << >>
    /\ run = 1
    /\ first_run = NoOutput

Query ==
    /\ pc = "query"
    /\ result' = dijkstra(network, source, destination)
    /\ pc' = "answered"
    /\ UNCHANGED <<records, network, traffic_demands, source, destination, d,
                   link_utilization, warnings, paths, utilization_report, l,
                   wcf_report, run, first_run>>

NextPath == Query

SpecPath == InitPath /\ [][NextPath]_vars

----------------------------------------------------------------------------
(* Directed paths, defined independently of dijkstra *)

LinkIds(links) == 0..(Len(links) - 1)

NodesOf(links) ==
    {links[i].start : i \in 1..Len(links)} \cup {links[i].end : i \in 1..Len(links)}

\* p is a sequence of link ids chaining from s to e; the empty sequence is
\* the zero-length path from a node to itself
ValidPath(links, p, s, e) ==
    IF p = << >> THEN s = e
    ELSE /\ links[p[1] + 1].start = s
         /\ \A i \in 1..(Len(p) - 1) : links[p[i] + 1].end = links[p[i + 1] + 1].start
         /\ links[p[Len(p)] + 1].end = e

PathWeight(links, p) == SumSeq([i \in 1..Len(p) |-> links[p[i] + 1].weight])

\* the node a walk from s ends at
EndOf(links, p, s) == IF p = << >> THEN s ELSE links[p[Len(p)] + 1].end

\* the walks of at most n links that start at s, each link leaving the node
\* the walk has reached
RECURSIVE WalksFrom(_, _, _)
WalksFrom(links, s, n) ==
    IF n = 0 THEN {<< >>}
    ELSE LET shorter == WalksFrom(links, s, n - 1)
             longest == {p \in shorter : Len(p) = n - 1}
             out(p) == {id \in LinkIds(links) : links[id + 1].start = EndOf(links, p, s)}
         IN  shorter \cup UNION {{Append(p, id) : id \in out(p)} : p \in longest}

\* every valid path of at most |links| + 1 links from s to e (every simple
\* path is among them)
PathsBetween(links, s, e) ==
    {p \in WalksFrom(links, s, Len(links) + 1) : ValidPath(links, p, s, e)}

Reachable(links, s, e) == PathsBetween(links, s, e) # {}

Answered == pc = "answered"

----------------------------------------------------------------------------
(* Claims about dijkstra, checked under SpecPath *)

\* C1 - path validity: a returned path of at least one link starts at the
\* source, each link ends where the next one starts, and the last link ends
\* at the destination.
C1_PathValidity ==
    (Answered /\ result.tag = "Some" /\ Len(result.path) >= 1) =>
        LET p == result.path
        IN  /\ \A i \in 1..Len(p) : p[i] \in LinkIds(network)
            /\ network[p[1] + 1].start = source
            /\ \A i \in 1..(Len(p) - 1) :
                  network[p[i] + 1].end = network[p[i + 1] + 1].start
            /\ network[p[Len(p)] + 1].end = destination

C1_Witness ==
    /\ Answered
    /\ result.tag = "Some"
    /\ Len(result.path) = 2
    /\ network[result.path[1] + 1].start = source
    /\ network[result.path[2] + 1].end = destination
    /\ source # destination

\* C2 - optimality: the weight of a returned path is at most the weight of
\* every valid directed path from the source to the destination.
C2_Optimality ==
    (Answered /\ result.tag = "Some") =>
        \A p \in PathsBetween(network, source, destination) :
            PathWeight(network, result.path) <= PathWeight(network, p)

C2_Witness ==
    /\ Answered
    /\ result.tag = "Some"
    /\ Len(result.path) = 2
    /\ \E p \in PathsBetween(network, source, destination) :
          /\ Len(p) = 1
          /\ PathWeight(network, p) > PathWeight(network, result.path)

\* C7 (as claimed) - absent endpoints: a query whose source or destination
\* is no endpoint of any link is answered None.
C7_AbsentEndpoints ==
    (Answered /\ (source \notin NodesOf(network) \/ destination \notin NodesOf(network)))
        => result = None

\* C7 (amended) - a query with source # destination whose source or
\* destination is no endpoint of any link is answered None.
C7_AbsentDistinctEndpoints ==
    (/\ Answered
     /\ source # destination
     /\ (source \notin NodesOf(network) \/ destination \notin NodesOf(network)))
        => result = None

C7_Witness ==
    /\ Answered
    /\ source \in NodesOf(network)
    /\ destination \notin NodesOf(network)
    /\ \E i \in 1..Len(network) : network[i].start = source
    /\ result = None

\* C8 - parallel links: every link on a returned path has the lowest weight
\* among the links with the same start and end, and the smallest link id
\* among those of that lowest weight.
C8_ParallelTieBreak ==
    (Answered /\ result.tag = "Some") =>
        \A i \in 1..Len(result.path) :
            LET id == result.path[i]
                used == network[id + 1]
            IN  \A m \in LinkIds(network) :
                    (network[m + 1].start = used.start /\ network[m + 1].end = used.end)
                        => \/ used.weight < network[m + 1].weight
                           \/ (used.weight = network[m + 1].weight /\ id <= m)

C8_Witness ==
    /\ Answered
    /\ result.tag = "Some"
    /\ \E i \in 1..Len(result.path) :
          LET id == result.path[i]
              used == network[id + 1]
          IN  /\ \E m \in LinkIds(network) :
                    /\ m > id
                    /\ network[m + 1].start = used.start
                    /\ network[m + 1].end = used.end
                    /\ network[m + 1].weight = used.weight
              /\ \E m \in LinkIds(network) :
                    /\ m < id
                    /\ network[m + 1].start = used.start
                    /\ network[m + 1].end = used.end
                    /\ network[m + 1].weight > used.weight

----------------------------------------------------------------------------
(* model_traffic and worst_case_failure *)

\* the entry is overwritten instead of added to
AccumulateOverwriting(util, link_id, demand) == Insert(util, link_id, demand)

\* lines 153-154: *entry(link_id).or_insert(0) += demand
Accumulate(util, link_id, demand) ==
    Insert(util, link_id, (IF link_id \in DOMAIN util THEN util[link_id] ELSE 0) + demand)

\* lines 152-155: every link id of the path, in path order
RECURSIVE AddPath(_, _, _)
AddPath(util, path, demand) ==
    IF path = << >> THEN util
    ELSE AddPath(Accumulate(util, Head(path), demand), Tail(path), demand)

\* the orders in which iterating a HashMap with these keys can yield them:
\* the hasher is seeded at random for every map, so every order can occur
IterationOrders(keys) ==
    {o \in [1..Cardinality(keys) -> keys] : \A i, j \in DOMAIN o : i # j => o[i] # o[j]}

Header == <<"Link ID", "Utilization">>

\* only the entries with a non-zero total are written
ReportRowsNonZero(util, order) ==
    LET kept == SelectSeq(order, LAMBDA k : util[k] # 0)
    IN  [i \in 1..Len(kept) |-> <<to_string(kept[i]), to_string(util[kept[i]])>>]

\* lines 164-166: one record per entry of the map
ReportRows(util, order) ==
    [i \in 1..Len(order) |-> <<to_string(order[i]), to_string(util[order[i]])>>]

\* line 182: the demand touches an endpoint of the link
Affected(link, demand) ==
    \/ demand.source \in {link.start, link.end}
    \/ demand.destination \in {link.start, link.end}

\* lines 181-185: the records written for one link, in demand order
WcfRecords(link_id, link, demands) ==
    LET hit == SelectSeq(demands, LAMBDA dm : Affected(link, dm))
    IN  [i \in 1..Len(hit) |-> <<to_string(link_id), hit[i].source, hit[i].destination>>]

Init ==
    /\ pc = "model_traffic"
    /\ records = << >>
    /\ network \in Networks(RouteNodes, MaxRouteLinks)
    /\ traffic_demands \in DemandLists(MaxDemands)
    /\ source = "A"
    /\ destination = "A"
    /\ result = None
    /\ d = 0
    /\ link_utilization = EmptyMap
    /\ warnings = << >>
    /\ paths = << >>
    /\ utilization_report = << >>
    /\ l = 0
    /\ wcf_report = << >>
    /\ run = 1
    /\ first_run = NoOutput

NextDemand == traffic_demands[d + 1]

\* after a warning the remaining demands are skipped
WarnNoPathAndStop ==
    /\ pc = "model_traffic"
    /\ d < Len(traffic_demands)
    /\ LET r == dijkstra(network, NextDemand.source, NextDemand.destination)
       IN  /\ r.tag = "None"
           /\ paths' = Append(paths, r)
    /\ warnings' = Append(warnings, <<NextDemand.source, NextDemand.destination>>)
    /\ d' = Len(traffic_demands)
    /\ UNCHANGED <<pc, records, network, traffic_demands, source, destination,
                   result, link_utilization, utilization_report, l, wcf_report,
                   run, first_run>>

\* lines 150-155: one iteration of the demand loop, a path was found
RouteDemand ==
    /\ pc = "model_traffic"
    /\ d < Len(traffic_demands)
    /\ LET r == dijkstra(network, NextDemand.source, NextDemand.destination)
       IN  /\ r.tag = "Some"
           /\ link_utilization' = AddPath(link_utilization, r.path, NextDemand.demand)
           /\ paths' = Append(paths, r)
    /\ d' = d + 1
    /\ UNCHANGED <<pc, records, network, traffic_demands, source, destination,
                   result, warnings, utilization_report, l, wcf_report, run,
                   first_run>>

\* lines 150-151, 156-158: one iteration of the demand loop, no path
WarnNoPath ==
    /\ pc = "model_traffic"
    /\ d < Len(traffic_demands)
    /\ LET r == dijkstra(network, NextDemand.source, NextDemand.destination)
       IN  /\ r.tag = "None"
           /\ paths' = Append(paths, r)
    /\ warnings' = Append(warnings, <<NextDemand.source, NextDemand.destination>>)
    /\ d' = d + 1
    /\ UNCHANGED <<pc, records, network, traffic_demands, source, destination,
                   result, link_utilization, utilization_report, l, wcf_report,
                   run, first_run>>

\* lines 161-169: the report is written after the loop
WriteUtilization ==
    /\ pc = "model_traffic"
    /\ d = Len(traffic_demands)
    /\ \E order \in IterationOrders(DOMAIN link_utilization) :
          utilization_report' = <<Header>> \o ReportRows(link_utilization, order)
    /\ pc' = "worst_case_failure"
    /\ l' = 0
    /\ wcf_report' = << >>
    /\ UNCHANGED <<records, network, traffic_demands, source, destination, result,
                   d, link_utilization, warnings, paths, run, first_run>>

\* lines 176-186: one iteration of the link loop
WcfLink ==
    /\ pc = "worst_case_failure"
    /\ l < Len(network)
    /\ wcf_report' = wcf_report \o WcfRecords(l, network[l + 1], traffic_demands)
    /\ l' = l + 1
    /\ UNCHANGED <<pc, records, network, traffic_demands, source, destination,
                   result, d, link_utilization, warnings, paths,
                   utilization_report, run, first_run>>

\* lines 188-189, 221: both reports are complete
Finish ==
    /\ pc = "worst_case_failure"
    /\ l = Len(network)
    /\ pc' = "done"
    /\ UNCHANGED <<records, network, traffic_demands, source, destination, result,
                   d, link_utilization, warnings, paths, utilization_report, l,
                   wcf_report, run, first_run>>

\* the tool is started again on the same two input files
Rerun ==
    /\ pc = "done"
    /\ run = 1
    /\ first_run' = [paths |-> paths, utilization |-> utilization_report,
                     wcf |-> wcf_report]
    /\ run' = 2
    /\ pc' = "model_traffic"
    /\ d' = 0
    /\ link_utilization' = EmptyMap
    /\ warnings' = << >>
    /\ paths' = << >>
    /\ utilization_report' = << >>
    /\ l' = 0
    /\ wcf_report' = << >>
    /\ UNCHANGED <<records, network, traffic_demands, source, destination, result>>

Next == RouteDemand \/ WarnNoPath \/ WriteUtilization \/ WcfLink \/ Finish

Spec == Init /\ [][Next]_vars

NextRerun == RouteDemand \/ WarnNoPath \/ WriteUtilization \/ WcfLink \/ Finish \/ Rerun

SpecRerun == Init /\ [][NextRerun]_vars

----------------------------------------------------------------------------
(* Claims about model_traffic and worst_case_failure *)

Range(f) == {f[x] : x \in DOMAIN f}

Count(seq, x) == Cardinality({i \in 1..Len(seq) : seq[i] = x})

\* what dijkstra answered for the processed demand at one-based position k
Answer(k) == paths[k]

\* the processed demands for which a path was returned
Routed == {k \in 1..Len(paths) : Answer(k).tag = "Some"}

\* the link ids on the path of at least one routed demand
LinksOnPaths == UNION {Range(Answer(k).path) : k \in Routed}

\* the sum of the volumes of the routed demands whose path contains the link
VolumeAcross(link_id) ==
    SumSeq([k \in 1..Len(traffic_demands) |->
              IF k \in Routed /\ link_id \in Range(Answer(k).path)
              THEN traffic_demands[k].demand ELSE 0])

AllProcessed == pc # "model_traffic" \/ d = Len(traffic_demands)

ReportWritten == pc \in {"worst_case_failure", "done"}

\* C3 - unreachability: when no directed path leads from the next demand's
\* source to its destination, dijkstra answers None, and the iteration of
\* model_traffic leaves every utilization as it was and moves on to the
\* next demand.
C3_UnreachableSkipped ==
    [][(/\ pc = "model_traffic"
        /\ d < Len(traffic_demands)
        /\ ~Reachable(network, NextDemand.source, NextDemand.destination))
       => (/\ dijkstra(network, NextDemand.source, NextDemand.destination) = None
           /\ link_utilization' = link_utilization
           /\ pc' = "model_traffic"
           /\ d' = d + 1)]_vars

C3_Witness ==
    /\ pc = "model_traffic"
    /\ d = 2
    /\ Len(traffic_demands) = 2
    /\ traffic_demands[1].demand > 0
    /\ ~Reachable(network, traffic_demands[1].source, traffic_demands[1].destination)
    /\ traffic_demands[1].source \in NodesOf(network)
    /\ traffic_demands[1].destination \in NodesOf(network)
    /\ paths[1] = None
    /\ paths[2].tag = "Some"
    /\ DOMAIN link_utilization = Range(paths[2].path)
    /\ link_utilization # EmptyMap

\* C4 - aggregation: once every demand is processed, the utilization map
\* has an entry for exactly the links on the path of at least one routed
\* demand, each entry is the sum of the volumes of the routed demands whose
\* path contains the link, and the entries add up to the sum over the routed
\* demands of path length times volume.
C4_Aggregation ==
    AllProcessed =>
        /\ DOMAIN link_utilization = LinksOnPaths
        /\ \A id \in DOMAIN link_utilization : link_utilization[id] = VolumeAcross(id)
        /\ SumSeq([i \in 1..Len(network) |->
                     IF (i - 1) \in DOMAIN link_utilization
                     THEN link_utilization[i - 1] ELSE 0])
             = SumSeq([k \in 1..Len(traffic_demands) |->
                         IF k \in Routed
                         THEN Len(Answer(k).path) * traffic_demands[k].demand ELSE 0])

C4_Witness ==
    /\ AllProcessed
    /\ Len(traffic_demands) = 2
    /\ traffic_demands[1].demand = 1
    /\ traffic_demands[2].demand = 2
    /\ Routed = {1, 2}
    /\ Len(Answer(1).path) = 2
    /\ Len(Answer(2).path) = 1
    /\ link_utilization = (0 :> 3) @@ (1 :> 1)

\* the rows below the header of the utilization report
Rows == Tail(utilization_report)

\* C10 (as claimed) - the utilization report has its header, then a row for
\* a link id exactly when the total volume routed across the link is
\* non-zero, and at most one row per link id.
C10_RowsForNonZeroVolume ==
    ReportWritten =>
        /\ utilization_report[1] = Header
        /\ \A id \in LinkIds(network) :
              /\ (\E i \in 1..Len(Rows) : Rows[i][1] = to_string(id)) <=> VolumeAcross(id) # 0
              /\ Cardinality({i \in 1..Len(Rows) : Rows[i][1] = to_string(id)}) <= 1

\* C10 (amended) - the utilization report has its header, then a row for a
\* link id exactly when the link is on the path of at least one routed
\* demand (the row carries the total volume, which is zero when all those
\* demands have volume zero), and at most one row per link id.
C10_RowsForLinksOnPaths ==
    ReportWritten =>
        /\ utilization_report[1] = Header
        /\ \A i \in 1..Len(Rows) : \E id \in LinkIds(network) : Rows[i][1] = to_string(id)
        /\ \A id \in LinkIds(network) :
              /\ (\E i \in 1..Len(Rows) : Rows[i][1] = to_string(id)) <=> id \in LinksOnPaths
              /\ Cardinality({i \in 1..Len(Rows) : Rows[i][1] = to_string(id)}) <= 1
              /\ \A i \in 1..Len(Rows) :
                    Rows[i][1] = to_string(id) => Rows[i][2] = to_string(VolumeAcross(id))

C10_Witness ==
    /\ ReportWritten
    /\ Len(Rows) = 2
    /\ \E i \in 1..2 : Rows[i] = <<"0", "0">>
    /\ \E i \in 1..2 : Rows[i] = <<"1", "2">>

\* the records the claim C5 describes, in link order and then demand order
ClaimedWcfRecords ==
    LET of(link) ==
            LET hit == SelectSeq(traffic_demands, LAMBDA dm : Affected(link, dm))
            IN  [i \in 1..Len(hit) |->
                   <<link.start, link.end, hit[i].source, hit[i].destination>>]
        upto[n \in 0..Len(network)] ==
            IF n = 0 THEN << >> ELSE upto[n - 1] \o of(network[n])
    IN  upto[Len(network)]

\* C5 - WCF report: for every link L and demand D the report holds exactly
\* one record (L.start, L.end, D.source, D.destination) if D.source or
\* D.destination is L.start or L.end, and no record for the pair otherwise.
C5_WcfRecords ==
    pc = "done" =>
        \A r \in Range(wcf_report) \cup Range(ClaimedWcfRecords) :
            Count(wcf_report, r) = Count(ClaimedWcfRecords, r)

\* C6 - determinism: a second run on the same inputs yields the same path
\* for every demand and the same rows, in the same order, in both reports.
C6_Determinism ==
    (run = 2 /\ pc = "done") =>
        /\ paths = first_run.paths
        /\ utilization_report = first_run.utilization
        /\ wcf_report = first_run.wcf

----------------------------------------------------------------------------
(* load_network *)

Ok(link) == [tag |-> "Ok", link |-> link]

Err == [tag |-> "Err"]

\* node names of the network file
FileNodes == {"A", "B"}

\* rows of four columns (start, end, capacity, weight) and rows with one more
\* column in front of them; "x" is a field that is no number
RowChoices ==
    LET numbers == {to_string(w) : w \in Weights} \cup {"x"}
        capacities == {to_string(c) : c \in Capacities}
    IN  {<<s, e, c, w>> : s \in FileNodes, e \in FileNodes, c \in capacities, w \in numbers}
        \cup {<<"0", s, e, c, w>> :
                s \in FileNodes, e \in FileNodes, c \in capacities \cup {"x"}, w \in numbers}

\* lines 59-67: the link built from one record; `width` is the number of
\* fields of the first record (the reader rejects a record of another length),
\* record[i] panics past the last field, and the fields of the struct are
\* evaluated in the order they are written
ReadLink(link_id, record, width) ==
    IF Len(record) # width THEN Err
    ELSE IF Len(record) < 4 THEN Panic
    ELSE IF ~Parse(record[4]).ok THEN Err
    ELSE IF Len(record) < 5 THEN Panic
    ELSE IF ~Parse(record[5]).ok THEN Err
    ELSE Ok(Link(link_id, record[2], record[3], Parse(record[4]).value, Parse(record[5]).value))

InitLoad ==
    /\ pc = "load_network"
    /\ records \in SeqsUpTo(RowChoices, MaxRecords)
    /\ network = << >>
    /\ traffic_demands = << >>
    /\ source = "A"
    /\ destination = "A"
    /\ result = None
    /\ d = 0
    /\ link_utilization = EmptyMap
    /\ warnings = << >>
    /\ paths = << >>
    /\ utilization_report = << >>
    /\ l = 0
    /\ wcf_report = << >>
    /\ run = 1
    /\ first_run = NoOutput

\* the record read by the next iteration: every earlier one pushed a link
NextLink == ReadLink(Len(network), records[Len(network) + 1], Len(records[1]))

LoadUnchanged ==
    UNCHANGED <<records, traffic_demands, source, destination, result, d,
                link_utilization, warnings, paths, utilization_report, l,
                wcf_report, run, first_run>>

\* lines 59-69: one iteration that pushes a link
PushLink ==
    /\ pc = "load_network"
    /\ Len(network) < Len(records)
    /\ NextLink.tag = "Ok"
    /\ network' = Append(network, NextLink.link)
    /\ pc' = pc
    /\ LoadUnchanged

\* lines 60, 65, 66: `?` returns the error
LoadError ==
    /\ pc = "load_network"
    /\ Len(network) < Len(records)
    /\ NextLink.tag = "Err"
    /\ pc' = "error"
    /\ network' = network
    /\ LoadUnchanged

\* lines 63-66: indexing a record past its last field
LoadPanic ==
    /\ pc = "load_network"
    /\ Len(network) < Len(records)
    /\ NextLink.tag = "panic"
    /\ pc' = "panic"
    /\ network' = network
    /\ LoadUnchanged

\* line 71: Ok(Network { links })
Loaded ==
    /\ pc = "load_network"
    /\ Len(network) = Len(records)
    /\ pc' = "loaded"
    /\ network' = network
    /\ LoadUnchanged

NextLoad == PushLink \/ LoadError \/ LoadPanic \/ Loaded

SpecLoad == InitLoad /\ [][NextLoad]_vars

\* every row has the four columns of the network table, with numbers in the
\* last two
WellFormed(rows) ==
    \A i \in 1..Len(rows) :
        Len(rows[i]) = 4 /\ Parse(rows[i][3]).ok /\ Parse(rows[i][4]).ok

\* C9 - network loading: the row at zero-based position i with columns
\* (c0, c1, c2, c3) becomes the link with link_id = i, start = c0, end = c1,
\* capacity = c2 and weight = c3, so that the link ids are 0 .. |Links|-1,
\* each used once; a file of such rows is loaded.
C9_LoadNetwork ==
    /\ pc \in {"error", "panic"} => ~WellFormed(records)
    /\ pc = "loaded" =>
          /\ Len(network) = Len(records)
          /\ \A i \in 1..Len(records) :
                /\ Parse(records[i][3]).ok
                /\ Parse(records[i][4]).ok
                /\ network[i] = Link(i - 1, records[i][1], records[i][2],
                                     Parse(records[i][3]).value,
                                     Parse(records[i][4]).value)

====
